---- MODULE Spec2Model ----
(***************************************************************************)
(* A model of main.py of gcp-cost-reporter: the pace comparison            *)
(* (format_diff), the Compute Engine SKU categorizer (categorize_sku), the *)
(* two report tables (generate_service_summary_table and                   *)
(* generate_sku_breakdown_table), the Slack delivery with its retries      *)
(* (send_slack_message) and the per-project driver loop of __main__.       *)
(*                                                                         *)
(* Money is counted in cents (integers).  Text that the program inspects   *)
(* (lower(), substring tests, ordering) is a sequence of one-character     *)
(* strings; text that is only compared for equality is a TLA+ string.      *)
(***************************************************************************)
EXTENDS Integers, Sequences, FiniteSets, TLC

VARIABLES
    df_this_month_full,    \* rows of the current period, all projects
    df_last_month_full,    \* rows of the prior period, all projects
    days_so_far,           \* now.day
    last_month_days,       \* length of the prior month
    end_of_this_month_day, \* length of the current month
    has_token,             \* SLACK_BOT_TOKEN is set in the environment
    pc,                    \* position of the driver
    project_idx,           \* index into PROJECTS_TO_MONITOR
    main_message_ts,       \* ts of the project's summary message, or None
    sorted_services,       \* the project's services in breakdown order
    service_idx,           \* index into sorted_services
    attempt,               \* attempt counter of the send in progress
    payload,               \* the message of the send in progress
    slack_log,             \* every finished send_slack_message call, in order
    generated,             \* every generate_sku_breakdown_table call, in order
    finished,              \* "Script finished." was printed
    report,                \* the table returned by the last table call
    fd_in,                 \* arguments of the last format_diff call
    fd_out,                \* its result
    sku_in,                \* argument of the last categorize_sku call
    category               \* its result

vars == <<df_this_month_full, df_last_month_full, days_so_far, last_month_days,
          end_of_this_month_day, has_token, pc, project_idx, main_message_ts,
          sorted_services, service_idx, attempt, payload, slack_log, generated,
          finished, report, fd_in, fd_out, sku_in, category>>

None == "None"

(***************************************************************************)
(* Text                                                                    *)
(***************************************************************************)
UpperCase == <<"A","B","C","D","E","F","G","H","I","J","K","L","M","N","O","P","Q","R","S","T","U","V","W","X","Y","Z">>
LowerCase == <<"a","b","c","d","e","f","g","h","i","j","k","l","m","n","o","p","q","r","s","t","u","v","w","x","y","z">>

\* The characters of the model's texts, in code-point order.
Alphabet == <<" ","(",")","-","/","0","1","2","3","4","5","6","7","8","9",":","A","B","C","D","E","F","G","H","I","J","K","L","M","N","O","P","Q","R","S","T","U","V","W","X","Y","Z","a","b","c","d","e","f","g","h","i","j","k","l","m","n","o","p","q","r","s","t","u","v","w","x","y","z">>

Ord(c) == CHOOSE i \in 1..Len(Alphabet) : Alphabet[i] = c

\* str.lower()
str_lower(s) ==
    [i \in 1..Len(s) |->
        IF \E k \in 1..Len(UpperCase) : UpperCase[k] = s[i]
        THEN LowerCase[CHOOSE k \in 1..Len(UpperCase) : UpperCase[k] = s[i]]
        ELSE s[i]]

\* pattern in text
Contains(p, s) ==
    \E text \in {s} :
        \E i \in 1..(Len(text) - Len(p) + 1) : \A j \in 1..Len(p) : text[i + j - 1] = p[j]

\* text < text, as Python compares str: at the first difference, or s a
\* proper prefix of u
StrLess(s, u) ==
    \E i \in 1..Len(u) :
        /\ \A j \in 1..(i - 1) : j <= Len(s) /\ s[j] = u[j]
        /\ \/ i = Len(s) + 1
           \/ i <= Len(s) /\ Ord(s[i]) < Ord(u[i])

(***************************************************************************)
(* Rationals, for the float arithmetic of format_diff and of the forecast  *)
(***************************************************************************)
Rat(n, d) == [num |-> n, den |-> d]
RatMul(a, b) == Rat(a.num * b.num, a.den * b.den)
RatDiv(a, b) == Rat(a.num * b.den, a.den * b.num)
RatSub(a, b) == Rat(a.num * b.den - b.num * a.den, a.den * b.den)
Abs(x) == IF x < 0 THEN -x ELSE x
Sgn(x) == IF x > 0 THEN 1 ELSE IF x < 0 THEN -1 ELSE 0
RatSgn(a) == Sgn(a.num) * Sgn(a.den)

\* |a| rounded to an integer, halves to even: what the format spec .2f does to
\* a value already scaled by 100.
RoundAbs(a) ==
    LET n == Abs(a.num)
        d == Abs(a.den)
        q == n \div d
        r == n % d
    IN  IF 2 * r > d \/ (2 * r = d /\ q % 2 = 1) THEN q + 1 ELSE q

(***************************************************************************)
(* Utility functions                                                       *)
(***************************************************************************)
\* f"${val:,.2f}" of an amount of val cents: sign, whole part, two decimals.
clean_currency(val) ==
    [negative |-> val < 0, whole |-> Abs(val) \div 100, frac |-> Abs(val) % 100]

\* The annotation string of format_diff: its marker and the printed magnitude,
\* in hundredths of a percent.
\*   ""          -> empty       " (up inf%) red"   -> up_inf
\*   " (up x%)"  -> up          " (down x%) green" -> down
\*   " (-> 0.00%)" -> flat      " N/A"             -> na
Annotation(kind, mag) == [kind |-> kind, mag |-> mag]

format_diff(last_total, this_total, days, month_days) ==
    IF last_total = 0 \/ days = 0
    THEN <<Annotation("empty", 0), Rat(0, 1)>>
    ELSE IF month_days = 0
    THEN <<Annotation("na", 0), Rat(0, 1)>>              \* ZeroDivisionError, caught
    ELSE
      LET expected_so_far == RatMul(Rat(last_total, month_days), Rat(days, 1))
      IN  IF expected_so_far.num = 0
          THEN <<(IF this_total > 0 THEN Annotation("up_inf", 0)
                                    ELSE Annotation("flat", 0)), Rat(0, 1)>>
          ELSE
            LET percent_diff ==
                    RatMul(RatSub(RatDiv(Rat(this_total, 1), expected_so_far),
                                  Rat(1, 1)),
                           Rat(100, 1))
                mag == RoundAbs(RatMul(percent_diff, Rat(100, 1)))
            IN  IF RatSgn(percent_diff) > 0 THEN <<Annotation("up", mag), percent_diff>>
                ELSE IF RatSgn(percent_diff) < 0 THEN <<Annotation("down", mag), percent_diff>>
                ELSE <<Annotation("flat", 0), percent_diff>>

(***************************************************************************)
(* The Compute Engine SKU categorizer                                      *)
(***************************************************************************)
VM_Core_OnDemand ==
    <<"V","M"," ","C","o","r","e"," ","H","o","u","r","s"," ","(","O","n","-","D","e","m","a","n","d",")">>
VM_Core_Committed ==
    <<"V","M"," ","C","o","r","e"," ","H","o","u","r","s"," ","(","C","o","m","m","i","t","t","e","d"," ","U","s","e",")">>
VM_Core_Spot ==
    <<"V","M"," ","C","o","r","e"," ","H","o","u","r","s"," ","(","S","p","o","t","/","P","r","e","e","m","p","t","i","b","l","e",")">>
VM_RAM_OnDemand ==
    <<"V","M"," ","R","A","M"," ","(","O","n","-","D","e","m","a","n","d",")">>
VM_RAM_Committed ==
    <<"V","M"," ","R","A","M"," ","(","C","o","m","m","i","t","t","e","d"," ","U","s","e",")">>
VM_RAM_Spot ==
    <<"V","M"," ","R","A","M"," ","(","S","p","o","t","/","P","r","e","e","m","p","t","i","b","l","e",")">>
Local_OnDemand ==
    <<"S","t","o","r","a","g","e",":"," ","L","o","c","a","l"," ","S","S","D","/","S","t","o","r","a","g","e"," ","(","O","n","-","D","e","m","a","n","d",")">>
Local_Committed ==
    <<"S","t","o","r","a","g","e",":"," ","L","o","c","a","l"," ","S","S","D","/","S","t","o","r","a","g","e"," ","(","C","o","m","m","i","t","t","e","d"," ","U","s","e",")">>
Persistent_Disk ==
    <<"S","t","o","r","a","g","e",":"," ","P","e","r","s","i","s","t","e","n","t"," ","D","i","s","k">>
PD_Snapshots ==
    <<"S","t","o","r","a","g","e",":"," ","P","D"," ","S","n","a","p","s","h","o","t","s">>
Data_Transfer ==
    <<"N","e","t","w","o","r","k",":"," ","D","a","t","a"," ","T","r","a","n","s","f","e","r">>
IP_Addresses ==
    <<"N","e","t","w","o","r","k",":"," ","I","P"," ","A","d","d","r","e","s","s","e","s">>
Cloud_Router ==
    <<"N","e","t","w","o","r","k",":"," ","C","l","o","u","d"," ","R","o","u","t","e","r">>
Licenses ==
    <<"L","i","c","e","n","s","e","s">>
Other ==
    <<"O","t","h","e","r">>

\* categorize_sku with the core/CPU test made first
categorize_sku_core_first(sku_description) ==
    LET sku_lower == str_lower(sku_description)
        has(p) == Contains(p, sku_lower)
    IN  IF has(<<"i","n","s","t","a","n","c","e"," ","c","o","r","e">>)
           \/ has(<<"c","p","u">>)
        THEN IF has(<<"s","p","o","t">>) \/ has(<<"p","r","e","e","m","p","t","i","b","l","e">>)
             THEN VM_Core_Spot
             ELSE IF has(<<"c","o","m","m","i","t","m","e","n","t">>) THEN VM_Core_Committed
             ELSE VM_Core_OnDemand
        ELSE IF has(<<"l","o","c","a","l"," ","s","s","d">>)
           \/ has(<<"l","o","c","a","l"," ","s","t","o","r","a","g","e">>)
        THEN IF has(<<"c","o","m","m","i","t","m","e","n","t">>) THEN Local_Committed ELSE Local_OnDemand
        ELSE IF has(<<" ","r","a","m"," ">>)
           \/ has(<<"i","n","s","t","a","n","c","e"," ","r","a","m">>)
           \/ has(<<"m","e","m","o","r","y">>)
        THEN IF has(<<"s","p","o","t">>) \/ has(<<"p","r","e","e","m","p","t","i","b","l","e">>)
             THEN VM_RAM_Spot
             ELSE IF has(<<"c","o","m","m","i","t","m","e","n","t">>) THEN VM_RAM_Committed
             ELSE VM_RAM_OnDemand
        ELSE IF has(<<"s","t","o","r","a","g","e"," ","p","d">>)
           \/ has(<<"p","e","r","s","i","s","t","e","n","t"," ","d","i","s","k">>)
        THEN IF has(<<"s","n","a","p","s","h","o","t">>) THEN PD_Snapshots ELSE Persistent_Disk
        ELSE IF has(<<"d","a","t","a"," ","t","r","a","n","s","f","e","r">>)
        THEN Data_Transfer
        ELSE IF has(<<"i","p"," ","a","d","d","r","e","s","s">>)
        THEN IP_Addresses
        ELSE IF has(<<"l","i","c","e","n","s","e">>)
           \/ has(<<"l","i","c","e","n","s","i","n","g"," ","f","e","e">>)
        THEN Licenses
        ELSE IF has(<<"r","o","u","t","e","r">>)
        THEN Cloud_Router
        ELSE Other

categorize_sku(sku_description) ==
    LET sku_lower == str_lower(sku_description)
        has(p) == Contains(p, sku_lower)
    IN  IF has(<<"l","o","c","a","l"," ","s","s","d">>)
           \/ has(<<"l","o","c","a","l"," ","s","t","o","r","a","g","e">>)
        THEN IF has(<<"c","o","m","m","i","t","m","e","n","t">>) THEN Local_Committed ELSE Local_OnDemand
        ELSE IF has(<<" ","r","a","m"," ">>)
           \/ has(<<"i","n","s","t","a","n","c","e"," ","r","a","m">>)
           \/ has(<<"m","e","m","o","r","y">>)
        THEN IF has(<<"s","p","o","t">>) \/ has(<<"p","r","e","e","m","p","t","i","b","l","e">>)
             THEN VM_RAM_Spot
             ELSE IF has(<<"c","o","m","m","i","t","m","e","n","t">>) THEN VM_RAM_Committed
             ELSE VM_RAM_OnDemand
        ELSE IF has(<<"i","n","s","t","a","n","c","e"," ","c","o","r","e">>)
           \/ has(<<"c","p","u">>)
        THEN IF has(<<"s","p","o","t">>) \/ has(<<"p","r","e","e","m","p","t","i","b","l","e">>)
             THEN VM_Core_Spot
             ELSE IF has(<<"c","o","m","m","i","t","m","e","n","t">>) THEN VM_Core_Committed
             ELSE VM_Core_OnDemand
        ELSE IF has(<<"s","t","o","r","a","g","e"," ","p","d">>)
           \/ has(<<"p","e","r","s","i","s","t","e","n","t"," ","d","i","s","k">>)
        THEN IF has(<<"s","n","a","p","s","h","o","t">>) THEN PD_Snapshots ELSE Persistent_Disk
        ELSE IF has(<<"d","a","t","a"," ","t","r","a","n","s","f","e","r">>)
        THEN Data_Transfer
        ELSE IF has(<<"i","p"," ","a","d","d","r","e","s","s">>)
        THEN IP_Addresses
        ELSE IF has(<<"l","i","c","e","n","s","e">>)
           \/ has(<<"l","i","c","e","n","s","i","n","g"," ","f","e","e">>)
        THEN Licenses
        ELSE IF has(<<"r","o","u","t","e","r">>)
        THEN Cloud_Router
        ELSE Other

category_order ==
    << VM_Core_OnDemand, VM_Core_Committed, VM_Core_Spot,
       VM_RAM_OnDemand, VM_RAM_Committed, VM_RAM_Spot,
       Local_OnDemand, Local_Committed,
       Persistent_Disk, PD_Snapshots,
       Data_Transfer, IP_Addresses, Cloud_Router,
       Licenses, Other >>

(***************************************************************************)
(* Data frames: a frame is a set of rows                                   *)
(*   [project_id, service_id, service_description, sku_description,        *)
(*    usage_date, subtotal]                                                *)
(* (the query groups by the first five, so no two rows of a frame agree on *)
(* all of them).  usage_date counts days from the last day of the prior    *)
(* month: day 1 is the first of the current month, days <= 0 lie in the    *)
(* prior month.  subtotal is in cents.                                     *)
(***************************************************************************)
\* Cents in one unit of currency.
Unit == 100

Row(p, sid, sname, sku, d, amt) ==
    [project_id |-> p, service_id |-> sid, service_description |-> sname,
     sku_description |-> sku, usage_date |-> d, subtotal |-> amt]

\* df['subtotal'].sum()
SumSubtotal(rows) ==
    LET sum[rs \in SUBSET rows] ==
            IF rs = {} THEN 0
            ELSE LET r == CHOOSE x \in rs : TRUE
                 IN  r.subtotal + sum[rs \ {r}]
    IN  sum[rows]

\* df.groupby(key)['subtotal'].sum(): a Series, index -> sum
IndexKey(r, by) ==
    IF Len(by) = 1 THEN r[by[1]] ELSE [i \in 1..Len(by) |-> r[by[i]]]

GroupBySum(df, by) ==
    [k \in {IndexKey(r, by) : r \in df} |->
        SumSubtotal({r \in df : IndexKey(r, by) = k})]

\* Series.get(k, default)
SeriesGet(series, k, default) ==
    IF k \in DOMAIN series THEN series[k] ELSE default

\* The sum of the values of a Series at keys
SumOfSeries(series, keys) ==
    LET sum[ks \in SUBSET keys] ==
            IF ks = {} THEN 0
            ELSE LET k == CHOOSE x \in ks : TRUE
                 IN  series[k] + sum[ks \ {k}]
    IN  sum[keys]

\* Series.sum() over the values above the noise threshold only
SeriesSum_shown(series) ==
    SumOfSeries(series, {k \in DOMAIN series : series[k] > 100})

\* Series.sum()
SeriesSum(series) == SumOfSeries(series, DOMAIN series)

\* The orders in which a Python set can be iterated.
Perms(S) ==
    {f \in [1..Cardinality(S) -> S] : \A i, j \in 1..Cardinality(S) : f[i] = f[j] => i = j}

\* tuple < tuple, for tuples of numbers of one length
TupleLess(a, b) ==
    \E i \in 1..Len(a) :
        /\ \A j \in 1..(i - 1) : a[j] = b[j]
        /\ a[i] < b[i]

\* sorted(items, key=..., reverse=...).  keyf maps an item to its key, a tuple
\* of numbers.  The sort is stable in both directions, which fixes the result:
\* an item stands behind the items that sort before it and behind the items
\* of equal key that came before it.
SortedBy(items, keyf, reverse) ==
    LET sorted(arg) ==
            LET n == Len(arg[1])
                key(i) == arg[2][arg[1][i]]
                first(i, j) == IF reverse THEN TupleLess(key(j), key(i))
                                          ELSE TupleLess(key(i), key(j))
                ahead(i) == {j \in 1..n : first(j, i) \/ (j < i /\ ~first(i, j))}
            IN  [p \in 1..n |->
                    arg[1][CHOOSE i \in 1..n : Cardinality(ahead(i)) = p - 1]]
    IN  \* the arguments are evaluated once
        CHOOSE result \in {sorted(arg) : arg \in {<<items, keyf>>}} : TRUE

Range(s) == {s[i] : i \in 1..Len(s)}

\* recent_days: the three days before today
RecentDays(now_day) == <<now_day - 3, now_day - 2, now_day - 1>>

(***************************************************************************)
(* Report tables: a table is the sequence of its rows, "" is <<>>          *)
(***************************************************************************)
Dash == <<"-">>
Total == <<"T","o","t","a","l">>
N_ComputeEngine == <<"C","o","m","p","u","t","e"," ","E","n","g","i","n","e">>

TableRow(label, last, curr, diff, daily) ==
    [label |-> label, last |-> clean_currency(last),
     curr |-> [amount |-> clean_currency(curr), diff |-> diff], daily |-> daily]

Separator(recent_days) ==
    [label |-> Dash, last |-> Dash, curr |-> Dash,
     daily |-> [i \in 1..Len(recent_days) |-> Dash]]

\* lambda s: costs.get(s, 0), negated: the order comes out ascending
cost_sort_key_ascending(costs, s) == <<-SeriesGet(costs, s, 0)>>

\* lambda s: costs.get(s, 0)
cost_sort_key(costs, s) == <<SeriesGet(costs, s, 0)>>

\* not (last <= 1 and curr <= 1): the row is kept
RowShown(last, curr) == ~(last <= 1 * Unit /\ curr <= 1 * Unit)

\* set(last_services.index) | set(this_services.index)
ServiceNames(df_last, df_this) ==
    {r.service_description : r \in df_last \cup df_this}

generate_service_summary_table(df_last, df_this, days, month_days, recent_days, set_order) ==
    LET last_services == GroupBySum(df_last, <<"service_description">>)
        this_services == GroupBySum(df_this, <<"service_description">>)
        all_service_names ==
            SortedBy(set_order,
                     [s \in Range(set_order) |-> cost_sort_key(this_services, s)],
                     TRUE)
        last(s) == SeriesGet(last_services, s, 0)
        curr(s) == SeriesGet(this_services, s, 0)
        shown(s) == RowShown(last(s), curr(s))
        kept == SelectSeq(all_service_names, shown)
        daily_vals(s) ==
            [i \in 1..Len(recent_days) |->
                clean_currency(SumSubtotal(
                    {r \in df_this : r.service_description = s
                                     /\ r.usage_date = recent_days[i]}))]
        table_data ==
            [i \in 1..Len(kept) |->
                TableRow(kept[i], last(kept[i]), curr(kept[i]),
                         format_diff(last(kept[i]), curr(kept[i]), days, month_days)[1],
                         daily_vals(kept[i]))]
        grand_total_last == SeriesSum(last_services)
        grand_total_this == SeriesSum(this_services)
        total_daily ==
            [i \in 1..Len(recent_days) |->
                clean_currency(SumSubtotal(
                    {r \in df_this : r.usage_date = recent_days[i]}))]
    IN  table_data
        \o << Separator(recent_days),
              TableRow(Total, grand_total_last, grand_total_this,
                       format_diff(grand_total_last, grand_total_this, days, month_days)[1],
                       total_daily) >>

\* category_sort_map.get(s, 99) that never finds s
CategoryRank_missing(s) == 99

\* category_sort_map.get(s, 99)
CategoryRank(s) ==
    IF \E i \in 1..Len(category_order) : category_order[i] = s
    THEN (CHOOSE i \in 1..Len(category_order) : category_order[i] = s) - 1
    ELSE 99

\* df.loc[:, 'Category'] = df['sku_description'].apply(categorize_sku)
WithCategory(df) ==
    {[f \in DOMAIN r \cup {"Category"} |->
        IF f = "Category" THEN categorize_sku(r.sku_description) ELSE r[f]] : r \in df}

\* The service's rows, with the Category column for Compute Engine
ServiceFrame(df, service_id, service_name) ==
    LET df_svc == {r \in df : r.service_id = service_id}
    IN  IF service_name = N_ComputeEngine THEN WithCategory(df_svc) ELSE df_svc

grouping_key(service_name) ==
    IF service_name = N_ComputeEngine THEN "Category" ELSE "sku_description"

\* set(last_costs.index) | set(this_costs.index)
BreakdownItems(service_id, service_name, df_last, df_this) ==
    {r[grouping_key(service_name)] :
        r \in ServiceFrame(df_last, service_id, service_name)
               \cup ServiceFrame(df_this, service_id, service_name)}

\* if not table_rows: return "" -- whether generate_sku_breakdown_table has
\* rows to show, whatever their order
BreakdownHasRows(service_id, service_name, df_last, df_this) ==
    LET df_last_svc == ServiceFrame(df_last, service_id, service_name)
        df_this_svc == ServiceFrame(df_this, service_id, service_name)
        last_costs == GroupBySum(df_last_svc, <<grouping_key(service_name)>>)
        this_costs == GroupBySum(df_this_svc, <<grouping_key(service_name)>>)
    IN  \E s \in DOMAIN last_costs \cup DOMAIN this_costs :
            RowShown(SeriesGet(last_costs, s, 0), SeriesGet(this_costs, s, 0))

generate_sku_breakdown_table(service_id, service_name, df_last, df_this, days, month_days, recent_days, set_order) ==
    LET df_last_svc == ServiceFrame(df_last, service_id, service_name)
        df_this_svc == ServiceFrame(df_this, service_id, service_name)
        last_costs == GroupBySum(df_last_svc, <<grouping_key(service_name)>>)
        this_costs == GroupBySum(df_this_svc, <<grouping_key(service_name)>>)
        all_items ==
            IF service_name = N_ComputeEngine
            THEN SortedBy(set_order,
                          [s \in Range(set_order) |-> <<CategoryRank(s)>>], FALSE)
            ELSE SortedBy(set_order,
                          [s \in Range(set_order) |-> cost_sort_key(this_costs, s)],
                          TRUE)
        last(s) == SeriesGet(last_costs, s, 0)
        curr(s) == SeriesGet(this_costs, s, 0)
        shown(s) == RowShown(last(s), curr(s))
        kept == SelectSeq(all_items, shown)
        \* the comprehension does not use its day
        daily_vals(s) ==
            [i \in 1..Len(recent_days) |->
                clean_currency(SumSubtotal(
                    {r \in df_this_svc : r[grouping_key(service_name)] = s}))]
        table_rows ==
            [i \in 1..Len(kept) |->
                TableRow(kept[i], last(kept[i]), curr(kept[i]),
                         format_diff(last(kept[i]), curr(kept[i]), days, month_days)[1],
                         daily_vals(kept[i]))]
        grand_total_last == SumSubtotal(df_last_svc)
        grand_total_this == SumSubtotal(df_this_svc)
        total_daily_vals ==
            [i \in 1..Len(recent_days) |->
                clean_currency(SumSubtotal(
                    {r \in df_this_svc : r.usage_date = recent_days[i]}))]
    IN  IF df_this_svc = {} /\ df_last_svc = {} THEN <<>>
        ELSE IF table_rows = <<>> THEN <<>>
        ELSE table_rows
             \o << Separator(recent_days),
                   TableRow(Total, grand_total_last, grand_total_this,
                            format_diff(grand_total_last, grand_total_this,
                                        days, month_days)[1],
                            total_daily_vals) >>

(***************************************************************************)
(* Slack delivery and the per-project driver                               *)
(***************************************************************************)
DEFAULT_CHANNEL_ID == "C-DEFAULT"

PROJECTS_TO_MONITOR ==
    << [id |-> "proj-a", name |-> "Project A", slack_channel_id |-> "C-A"],
       [id |-> "proj-b", name |-> "Project B", slack_channel_id |-> DEFAULT_CHANNEL_ID] >>

max_retries == 3

\* The ts Slack returns for the summary message of the i-th project, and for
\* a threaded reply.
SummaryTs == <<"ts-1", "ts-2">>
ReplyTs == "ts-reply"

NoPayload == [text |-> [kind |-> "none"], channel_id |-> None, thread_ts |-> None]

\* df[df['project_id'] == project_id]
ProjectFrame(df, project_id) == {r \in df : r.project_id = project_id}

\* (this_month_total / days_so_far) * end_of_this_month_day if days_so_far > 0 else 0,
\* rounded to cents as clean_currency prints it
Forecast(this_month_total, days, end_day) ==
    IF days > 0
    THEN Sgn(this_month_total) * RoundAbs(Rat(this_month_total * end_day, days))
    ELSE 0

PairLess(a, b) ==
    \/ StrLess(a[1], b[1])
    \/ a[1] = b[1] /\ StrLess(a[2], b[2])

\* df.groupby(['service_id', 'service_description'])['subtotal'].sum().items():
\* the pairs ((service_id, service_description), cost) in index order
ServiceItems(df) ==
    LET items(costs) ==
            [p \in 1..Cardinality(DOMAIN costs) |->
                LET k == CHOOSE x \in DOMAIN costs :
                            Cardinality({y \in DOMAIN costs : PairLess(y, x)}) = p - 1
                IN  <<k, costs[k]>>]
    IN  CHOOSE result \in
            {items(costs) : costs \in {GroupBySum(df, <<"service_id", "service_description">>)}} : TRUE

\* sort_key without the BigQuery flag
sort_key_cost_only(service_item) == <<0, -service_item[2]>>

sort_key(service_item) ==
    LET service_name == service_item[1][2]
        cost == service_item[2]
        is_not_bigquery ==
            IF Contains(<<"b","i","g","q","u","e","r","y">>, str_lower(service_name))
            THEN 0 ELSE 1
    IN  <<is_not_bigquery, -cost>>

SortedServices(df) ==
    LET sorted(items) == SortedBy(items, [it \in Range(items) |-> sort_key(it)], FALSE)
    IN  CHOOSE result \in {sorted(items) : items \in {ServiceItems(df)}} : TRUE

CurrentProject == PROJECTS_TO_MONITOR[project_idx]
df_this_project == ProjectFrame(df_this_month_full, CurrentProject.id)
df_last_project == ProjectFrame(df_last_month_full, CurrentProject.id)

\* for project in PROJECTS_TO_MONITOR: ... up to the send of the summary
StartProject ==
    /\ pc = "project"
    /\ project_idx <= Len(PROJECTS_TO_MONITOR)
    /\ LET this_month_total == SumSubtotal(df_this_project)
           last_month_total == SumSubtotal(df_last_project)
       IN  IF this_month_total < 1 * Unit /\ last_month_total < 1 * Unit
           THEN /\ project_idx' = project_idx + 1
                /\ UNCHANGED <<pc, attempt, payload>>
           ELSE \* service_diff_report, the table that CallSummary returns for
                \* the project, is the rest of the text
                /\ payload' =
                      [text |->
                         [kind |-> "summary",
                          project_name |-> CurrentProject.name,
                          project_id |-> CurrentProject.id,
                          last_month_total |-> clean_currency(last_month_total),
                          this_month_total |-> clean_currency(this_month_total),
                          diff |-> format_diff(last_month_total, this_month_total,
                                               days_so_far, last_month_days)[1],
                          forecast |-> clean_currency(
                              Forecast(this_month_total, days_so_far,
                                       end_of_this_month_day))],
                       channel_id |-> CurrentProject.slack_channel_id,
                       thread_ts |-> None]
                /\ pc' = "send_main"
                /\ attempt' = 0
                /\ UNCHANGED project_idx
    /\ UNCHANGED <<df_this_month_full, df_last_month_full, days_so_far, last_month_days,
                   end_of_this_month_day, has_token, main_message_ts, sorted_services,
                   service_idx, slack_log, generated, finished, report, fd_in, fd_out,
                   sku_in, category>>

\* Return, with a failed summary send ending the loop (break for continue)
Return_break(result) ==
    /\ slack_log' = Append(slack_log, [payload |-> payload, result |-> result])
    /\ payload' = NoPayload
    /\ attempt' = 0
    /\ IF pc = "send_main"
       THEN /\ main_message_ts' = result
            /\ IF result = None
               THEN /\ pc' = "project"
                    /\ project_idx' = Len(PROJECTS_TO_MONITOR) + 1
                    /\ UNCHANGED <<sorted_services, service_idx>>
               ELSE /\ pc' = "services"
                    /\ sorted_services' = SortedServices(df_this_project)
                    /\ service_idx' = 1
                    /\ UNCHANGED project_idx
       ELSE /\ pc' = "services"
            /\ service_idx' = service_idx + 1
            /\ UNCHANGED <<main_message_ts, sorted_services, project_idx>>
    /\ UNCHANGED <<df_this_month_full, df_last_month_full, days_so_far, last_month_days,
                   end_of_this_month_day, has_token, generated, finished, report,
                   fd_in, fd_out, sku_in, category>>

\* send_slack_message returns result to the driver
Return(result) ==
    /\ slack_log' = Append(slack_log, [payload |-> payload, result |-> result])
    /\ payload' = NoPayload
    /\ attempt' = 0
    /\ IF pc = "send_main"
       THEN /\ main_message_ts' = result
            /\ IF result = None
               THEN /\ pc' = "project"
                    /\ project_idx' = project_idx + 1
                    /\ UNCHANGED <<sorted_services, service_idx>>
               ELSE /\ pc' = "services"
                    /\ sorted_services' = SortedServices(df_this_project)
                    /\ service_idx' = 1
                    /\ UNCHANGED project_idx
       ELSE /\ pc' = "services"
            /\ service_idx' = service_idx + 1
            /\ UNCHANGED <<main_message_ts, sorted_services, project_idx>>
    /\ UNCHANGED <<df_this_month_full, df_last_month_full, days_so_far, last_month_days,
                   end_of_this_month_day, has_token, generated, finished, report,
                   fd_in, fd_out, sku_in, category>>

\* send_slack_message without a token
SendNoToken ==
    /\ pc \in {"send_main", "send_thread"}
    /\ ~has_token
    /\ Return(None)

\* One pass of the retry loop of send_slack_message; outcome is what Slack does
SendAttempt ==
    /\ pc \in {"send_main", "send_thread"}
    /\ has_token
    /\ attempt < max_retries
    /\ \E outcome \in {"ok", "api_error", "request_error"} :
          IF outcome = "ok"
          THEN Return(IF pc = "send_main" THEN SummaryTs[project_idx] ELSE ReplyTs)
          ELSE IF attempt + 1 < max_retries
          THEN /\ attempt' = attempt + 1
               /\ UNCHANGED <<df_this_month_full, df_last_month_full, days_so_far,
                              last_month_days, end_of_this_month_day, has_token, pc,
                              project_idx, main_message_ts, sorted_services, service_idx,
                              payload, slack_log, generated, finished, report, fd_in,
                              fd_out, sku_in, category>>
          ELSE Return(None)

\* for (service_id, service_name), cost in sorted_services: ...
NextService ==
    /\ pc = "services"
    /\ IF service_idx > Len(sorted_services)
       THEN /\ pc' = "project"
            /\ project_idx' = project_idx + 1
            /\ UNCHANGED <<service_idx, payload, generated>>
       ELSE
         LET service_id == sorted_services[service_idx][1][1]
             service_name == sorted_services[service_idx][1][2]
             cost == sorted_services[service_idx][2]
         IN  IF cost > 1 * Unit
             THEN /\ generated' = Append(generated,
                        [project_id |-> CurrentProject.id, service_id |-> service_id,
                         service_name |-> service_name, cost |-> cost])
                  \* table, what CallBreakdown returns for the service, is the
                  \* rest of the text; table.strip() is empty when it has no rows
                  /\ IF BreakdownHasRows(service_id, service_name,
                                         df_last_project, df_this_project)
                     THEN /\ payload' =
                               [text |->
                                  [kind |-> "breakdown",
                                   aggregated |-> (service_name = N_ComputeEngine),
                                   service_name |-> service_name],
                                channel_id |-> CurrentProject.slack_channel_id,
                                thread_ts |-> main_message_ts]
                          /\ pc' = "send_thread"
                          /\ UNCHANGED service_idx
                     ELSE /\ service_idx' = service_idx + 1
                          /\ UNCHANGED <<pc, payload>>
                  /\ UNCHANGED project_idx
             ELSE /\ service_idx' = service_idx + 1
                  /\ UNCHANGED <<pc, project_idx, payload, generated>>
    /\ UNCHANGED <<df_this_month_full, df_last_month_full, days_so_far, last_month_days,
                   end_of_this_month_day, has_token, main_message_ts, sorted_services,
                   attempt, slack_log, finished, report, fd_in, fd_out, sku_in, category>>

\* print("Script finished.")
Finish ==
    /\ pc = "project"
    /\ project_idx > Len(PROJECTS_TO_MONITOR)
    /\ pc' = "done"
    /\ finished' = TRUE
    /\ UNCHANGED <<df_this_month_full, df_last_month_full, days_so_far, last_month_days,
                   end_of_this_month_day, has_token, project_idx, main_message_ts,
                   sorted_services, service_idx, attempt, payload, slack_log, generated,
                   report, fd_in, fd_out, sku_in, category>>

\* Service ids and names, SKU descriptors
Id_BigQuery ==
    <<"2","4","E","6">>
Id_ComputeEngine ==
    <<"6","F","8","1">>
Id_CloudStorage ==
    <<"9","5","F","F">>
N_BigQuery ==
    <<"B","i","g","Q","u","e","r","y">>
N_CloudStorage ==
    <<"C","l","o","u","d"," ","S","t","o","r","a","g","e">>
Sku_ram ==
    <<"N","1"," ","P","r","e","d","e","f","i","n","e","d"," ","I","n","s","t","a","n","c","e"," ","R","a","m">>
Sku_license ==
    <<"L","i","c","e","n","s","i","n","g"," ","F","e","e"," ","f","o","r"," ","W","i","n","d","o","w","s">>
Sku_egress ==
    <<"N","e","t","w","o","r","k"," ","E","g","r","e","s","s">>
Sku_analysis ==
    <<"A","n","a","l","y","s","i","s">>
Sku_standard ==
    <<"S","t","a","n","d","a","r","d"," ","S","t","o","r","a","g","e">>
Sku_literal ==
    <<"N","1"," ","P","r","e","d","e","f","i","n","e","d"," ","I","n","s","t","a","n","c","e"," ","C","o","r","e"," ","r","u","n","n","i","n","g"," ","i","n"," ","r","e","g","i","o","n"," ","(","s","p","o","t",")"," ","w","i","t","h"," ","L","o","c","a","l"," ","S","S","D"," ","a","t","t","a","c","h","e","d">>
Fragments ==
    << <<"N","1"," ","P","r","e","d","e","f","i","n","e","d"," ","I","n","s","t","a","n","c","e"," ","C","o","r","e">>,
       <<" ","r","u","n","n","i","n","g"," ","i","n"," ","r","e","g","i","o","n">>,
       <<" ","(","s","p","o","t",")">>,
       <<" ","w","i","t","h"," ","L","o","c","a","l"," ","S","S","D"," ","a","t","t","a","c","h","e","d">>,
       <<" ","R","A","M"," ">>,
       <<"I","n","s","t","a","n","c","e"," ","R","a","m">>,
       <<"M","e","m","o","r","y"," ","O","p","t","i","m","i","z","e","d">>,
       <<"v","C","P","U">>,
       <<"S","t","o","r","a","g","e"," ","P","D"," ","C","a","p","a","c","i","t","y">>,
       <<" ","S","n","a","p","s","h","o","t">>,
       <<"D","a","t","a"," ","T","r","a","n","s","f","e","r"," ","O","u","t">>,
       <<"E","x","t","e","r","n","a","l"," ","I","P"," ","A","d","d","r","e","s","s">>,
       <<"L","i","c","e","n","s","e">>,
       <<"L","i","c","e","n","s","i","n","g"," ","F","e","e">>,
       <<"C","l","o","u","d"," ","R","o","u","t","e","r">>,
       <<"C","o","m","m","i","t","m","e","n","t"," ","v","1",":"," ">>,
       <<"P","r","e","e","m","p","t","i","b","l","e"," ">>,
       <<"L","o","c","a","l"," ","S","t","o","r","a","g","e">>,
       <<"N","e","t","w","o","r","k"," ","E","g","r","e","s","s">> >>

(***************************************************************************)
(* Inputs                                                                  *)
(***************************************************************************)
MaxRows == 3        \* rows in the two frames together
MaxFrags == 2       \* fragments in a generated SKU descriptor
MaxAmount == 3      \* largest small period total given to format_diff
MaxElapsed == 3     \* largest small days_so_far given to format_diff

MonthLengths == {28, 29, 30, 31}

\* The subsets of S with at most k elements
RECURSIVE SubsetsUpTo(_, _)
SubsetsUpTo(S, k) ==
    IF k = 0 THEN {{}}
    ELSE LET prev == SubsetsUpTo(S, k - 1)
         IN  prev \cup UNION {{s \cup {x} : x \in S \ s} : s \in prev}

\* A slot is a row the query may return (its grouping columns are fixed, so
\* no two rows of a frame share them) and the amounts it may carry.
Slot(p, sid, sname, sku, d, amounts) ==
    [row |-> Row(p, sid, sname, sku, d, 0), amounts |-> amounts]

\* One project for the report tables: today is day 5, so day 4 is a recent
\* day and day 5 is not; day 0 lies in the prior month.
LastAmounts == {-120, 50, 150}
ThisAmounts == {-120, 30, 150}

TableSlots ==
    << Slot("proj-a", Id_ComputeEngine, N_ComputeEngine, Sku_ram, 0, LastAmounts),
       Slot("proj-a", Id_ComputeEngine, N_ComputeEngine, Sku_license, 0, LastAmounts),
       Slot("proj-a", Id_ComputeEngine, N_ComputeEngine, Sku_egress, 0, LastAmounts),
       Slot("proj-a", Id_CloudStorage, N_CloudStorage, Sku_standard, 0, LastAmounts),
       Slot("proj-a", Id_BigQuery, N_BigQuery, Sku_analysis, 0, LastAmounts),
       Slot("proj-a", Id_ComputeEngine, N_ComputeEngine, Sku_ram, 4, ThisAmounts),
       Slot("proj-a", Id_ComputeEngine, N_ComputeEngine, Sku_license, 4, ThisAmounts),
       Slot("proj-a", Id_ComputeEngine, N_ComputeEngine, Sku_egress, 4, ThisAmounts),
       Slot("proj-a", Id_CloudStorage, N_CloudStorage, Sku_standard, 4, ThisAmounts),
       Slot("proj-a", Id_BigQuery, N_BigQuery, Sku_analysis, 4, ThisAmounts),
       Slot("proj-a", Id_ComputeEngine, N_ComputeEngine, Sku_ram, 5, ThisAmounts),
       Slot("proj-a", Id_CloudStorage, N_CloudStorage, Sku_standard, 5, ThisAmounts) >>

\* Two projects for the driver
DriverAmounts == {30, 300, 500}

DriverSlots ==
    << Slot("proj-a", Id_ComputeEngine, N_ComputeEngine, Sku_ram, 4, DriverAmounts),
       Slot("proj-a", Id_CloudStorage, N_CloudStorage, Sku_standard, 4, DriverAmounts),
       Slot("proj-a", Id_BigQuery, N_BigQuery, Sku_analysis, 4, DriverAmounts),
       Slot("proj-b", Id_CloudStorage, N_CloudStorage, Sku_standard, 4, {300}),
       Slot("proj-b", Id_BigQuery, N_BigQuery, Sku_analysis, 4, {500}),
       Slot("proj-a", Id_ComputeEngine, N_ComputeEngine, Sku_ram, 0, {200}),
       Slot("proj-b", Id_CloudStorage, N_CloudStorage, Sku_standard, 0, {200}) >>

RECURSIVE Concat(_)
Concat(ss) == IF ss = <<>> THEN <<>> ELSE Head(ss) \o Concat(Tail(ss))

\* SKU descriptors: up to MaxFrags fragments in a row, and one literal
Descriptors ==
    {Sku_literal}
    \cup UNION {{Concat([i \in 1..n |-> Fragments[f[i]]]) :
                    f \in [1..n -> 1..Len(Fragments)]} : n \in 0..MaxFrags}

\* Period totals for format_diff, in whole units
PaceAmounts ==
    (-MaxAmount)..MaxAmount \cup {3100, 500, -3100, -250}

PaceDays == 0..MaxElapsed \cup {5} \cup MonthLengths

(***************************************************************************)
(* Specifications                                                          *)
(***************************************************************************)
NoCalls ==
    /\ report = [call |-> "none"]
    /\ fd_in = <<>>
    /\ fd_out = <<>>
    /\ sku_in = <<>>
    /\ category = <<>>

DriverAt(p) ==
    /\ pc = p
    /\ project_idx = 1
    /\ main_message_ts = None
    /\ sorted_services = <<>>
    /\ service_idx = 1
    /\ attempt = 0
    /\ payload = NoPayload
    /\ slack_log = <<>>
    /\ generated = <<>>
    /\ finished = FALSE

Calendar ==
    /\ days_so_far = 5
    /\ last_month_days = 31
    /\ end_of_this_month_day = 30

\* The two frames hold at most MaxRows rows of the slots U
Frames(U) ==
    \E ks \in SubsetsUpTo(DOMAIN U, MaxRows) :
      \E amt \in [ks -> UNION {U[k].amounts : k \in ks}] :
        /\ \A k \in ks : amt[k] \in U[k].amounts
        /\ LET rows == {[U[k].row EXCEPT !.subtotal = amt[k]] : k \in ks}
           IN  /\ df_this_month_full = {r \in rows : r.usage_date >= 1}
               /\ df_last_month_full = {r \in rows : r.usage_date <= 0}

\* The script, from "Global data ready" on
Init ==
    /\ Frames(DriverSlots)
    /\ Calendar
    /\ has_token \in BOOLEAN
    /\ DriverAt("project")
    /\ NoCalls

Next == StartProject \/ SendNoToken \/ SendAttempt \/ NextService \/ Finish

Spec == Init /\ [][Next]_vars

\* The script is a sequential program: it takes its next step
FairSpec == Spec /\ WF_vars(Next)

\* The two report tables, called as the driver calls them
Negligible ==
    SumSubtotal(df_this_project) < 1 * Unit /\ SumSubtotal(df_last_project) < 1 * Unit

CallSummary ==
    /\ report.call = "none"
    /\ ~Negligible
    /\ \E set_order \in Perms(ServiceNames(df_last_project, df_this_project)) :
          report' = [call |-> "summary",
                     table |-> generate_service_summary_table(
                         df_last_project, df_this_project, days_so_far,
                         last_month_days, RecentDays(days_so_far), set_order)]
    /\ UNCHANGED <<df_this_month_full, df_last_month_full, days_so_far, last_month_days,
                   end_of_this_month_day, has_token, pc, project_idx, main_message_ts,
                   sorted_services, service_idx, attempt, payload, slack_log, generated,
                   finished, fd_in, fd_out, sku_in, category>>

CallBreakdown ==
    /\ report.call = "none"
    /\ ~Negligible
    /\ \E item \in Range(SortedServices(df_this_project)) :
          /\ item[2] > 1 * Unit
          /\ \E set_order \in Perms(BreakdownItems(item[1][1], item[1][2],
                                                  df_last_project, df_this_project)) :
                report' = [call |-> "breakdown",
                           service_id |-> item[1][1],
                           service_name |-> item[1][2],
                           table |-> generate_sku_breakdown_table(
                               item[1][1], item[1][2], df_last_project, df_this_project,
                               days_so_far, last_month_days, RecentDays(days_so_far),
                               set_order)]
    /\ UNCHANGED <<df_this_month_full, df_last_month_full, days_so_far, last_month_days,
                   end_of_this_month_day, has_token, pc, project_idx, main_message_ts,
                   sorted_services, service_idx, attempt, payload, slack_log, generated,
                   finished, fd_in, fd_out, sku_in, category>>

InitTables ==
    /\ Frames(TableSlots)
    /\ Calendar
    /\ has_token = TRUE
    /\ DriverAt("tables")
    /\ NoCalls

NextTables == CallSummary \/ CallBreakdown

SpecTables == InitTables /\ [][NextTables]_vars

\* format_diff on its own
CallFormatDiff ==
    /\ fd_out = <<>>
    /\ fd_out' = format_diff(fd_in[1], fd_in[2], fd_in[3], fd_in[4])
    /\ UNCHANGED <<df_this_month_full, df_last_month_full, days_so_far, last_month_days,
                   end_of_this_month_day, has_token, pc, project_idx, main_message_ts,
                   sorted_services, service_idx, attempt, payload, slack_log, generated,
                   finished, report, fd_in, sku_in, category>>

InitPace ==
    /\ df_this_month_full = {}
    /\ df_last_month_full = {}
    /\ Calendar
    /\ has_token = TRUE
    /\ DriverAt("format_diff")
    /\ report = [call |-> "none"]
    /\ fd_in \in PaceAmounts \X PaceAmounts \X PaceDays \X MonthLengths
    /\ fd_out = <<>>
    /\ sku_in = <<>>
    /\ category = <<>>

NextPace == CallFormatDiff

SpecPace == InitPace /\ [][NextPace]_vars

\* categorize_sku on its own
CallCategorize ==
    /\ category = <<>>
    /\ category' = categorize_sku(sku_in)
    /\ UNCHANGED <<df_this_month_full, df_last_month_full, days_so_far, last_month_days,
                   end_of_this_month_day, has_token, pc, project_idx, main_message_ts,
                   sorted_services, service_idx, attempt, payload, slack_log, generated,
                   finished, report, fd_in, fd_out, sku_in>>

InitCategorize ==
    /\ df_this_month_full = {}
    /\ df_last_month_full = {}
    /\ Calendar
    /\ has_token = TRUE
    /\ DriverAt("categorize_sku")
    /\ report = [call |-> "none"]
    /\ fd_in = <<>>
    /\ fd_out = <<>>
    /\ sku_in \in Descriptors
    /\ category = <<>>

NextCategorize == CallCategorize

SpecCategorize == InitCategorize /\ [][NextCategorize]_vars

(***************************************************************************)
(* Properties                                                              *)
(***************************************************************************)
\* The amount a currency cell prints, in cents
CellCents(cell) ==
    (IF cell.negative THEN -1 ELSE 1) * (cell.whole * 100 + cell.frac)

\* The rows of a table above its separator
DataRows(table) ==
    IF table = <<>> THEN <<>> ELSE SubSeq(table, 1, Len(table) - 2)

TotalRow(table) == table[Len(table)]

\* The rows of frame df that the returned report's row key k stands for
RowsOfKey(df, k) ==
    IF report.call = "summary"
    THEN {r \in df : r.service_description = k}
    ELSE {r \in df : /\ r.service_id = report.service_id
                     /\ k = (IF report.service_name = N_ComputeEngine
                             THEN categorize_sku(r.sku_description)
                             ELSE r.sku_description)}

\* The rows of frame df in the scope of the returned report
RowsInScope(df) ==
    IF report.call = "summary" THEN df
    ELSE {r \in df : r.service_id = report.service_id}

\* The keys of the returned report
ReportKeys ==
    IF report.call = "summary"
    THEN {r.service_description : r \in df_last_project \cup df_this_project}
    ELSE {(IF report.service_name = N_ComputeEngine
           THEN categorize_sku(r.sku_description) ELSE r.sku_description) :
             r \in RowsInScope(df_last_project \cup df_this_project)}

Displayed(k) ==
    \E i \in 1..Len(DataRows(report.table)) : report.table[i].label = k

\* The driver's test for an empty breakdown agrees with the table returned
BreakdownHasRowsAgrees ==
    report.call = "breakdown" =>
        (report.table # <<>>
            <=> BreakdownHasRows(report.service_id, report.service_name,
                                 df_last_project, df_this_project))

\* C1: in both tables a key's row is dropped if and only if its prior-period
\* sum and its current-period sum both have absolute value <= 1 unit; so a
\* key whose sums are negative with magnitude above 1 is displayed.
C1_RowFilterByMagnitude ==
    report.call # "none" =>
        \A k \in ReportKeys :
            Displayed(k) <=>
                ~(/\ Abs(SumSubtotal(RowsOfKey(df_last_project, k))) <= 1 * Unit
                  /\ Abs(SumSubtotal(RowsOfKey(df_this_project, k))) <= 1 * Unit)

\* C2: the Total row of every rendered table carries the sums of all rows in
\* the table's scope (the project, or the project's service), whether or not
\* the noise filter dropped their keys.
C2_TotalIsUnfilteredSum ==
    (report.call # "none" /\ report.table # <<>>) =>
        /\ CellCents(TotalRow(report.table).last)
              = SumSubtotal(RowsInScope(df_last_project))
        /\ CellCents(TotalRow(report.table).curr.amount)
              = SumSubtotal(RowsInScope(df_this_project))

\* The current-period amounts printed in the displayed rows, added up
RECURSIVE SumOfShown(_)
SumOfShown(rows) ==
    IF rows = <<>> THEN 0
    ELSE CellCents(Head(rows).curr.amount) + SumOfShown(Tail(rows))

\* C2 witness: a rendered table with a dropped key, whose Total differs from
\* the sum of its displayed rows.
C2_Witness ==
    /\ report.call # "none"
    /\ report.table # <<>>
    /\ \E k \in ReportKeys : ~Displayed(k)
    /\ CellCents(TotalRow(report.table).curr.amount)
          # SumOfShown(DataRows(report.table))

\* C3: with a prior total of 0, format_diff gives the empty annotation when
\* the current total is 0 and the infinite-increase indicator when it is > 0.
C3_ZeroPrior ==
    (fd_out # <<>> /\ fd_in[1] = 0) =>
        /\ fd_in[2] = 0 => fd_out[1].kind = "empty"
        /\ fd_in[2] > 0 => fd_out[1].kind = "up_inf"

\* C4: in both tables, the column of recent day d of every displayed row
\* holds the sum of the current-period rows of the row's key dated d.
C4_PerDayColumns ==
    report.call # "none" =>
        \A i \in 1..Len(DataRows(report.table)) :
            \A j \in 1..3 :
                CellCents(report.table[i].daily[j])
                    = SumSubtotal({r \in RowsOfKey(df_this_project, report.table[i].label) :
                                      r.usage_date = RecentDays(days_so_far)[j]})

\* Every finished send of a summary of project p / of a reply in its thread
SummarySends(p) ==
    {i \in 1..Len(slack_log) :
        /\ slack_log[i].payload.text.kind = "summary"
        /\ slack_log[i].payload.text.project_id = PROJECTS_TO_MONITOR[p].id}

ThreadSends(p) ==
    {i \in 1..Len(slack_log) :
        /\ slack_log[i].payload.text.kind = "breakdown"
        /\ slack_log[i].payload.thread_ts = SummaryTs[p]}

\* The current-period cost of a service of project p
ServiceCost(p, sid, sname) ==
    SumSubtotal({r \in df_this_month_full :
                    /\ r.project_id = PROJECTS_TO_MONITOR[p].id
                    /\ r.service_id = sid
                    /\ r.service_description = sname})

ServicesOf(p) ==
    {<<r.service_id, r.service_description>> :
        r \in {x \in df_this_month_full : x.project_id = PROJECTS_TO_MONITOR[p].id}}

\* Project p is skipped for negligible cost
Skipped(p) ==
    /\ SumSubtotal({r \in df_this_month_full : r.project_id = PROJECTS_TO_MONITOR[p].id})
          < 1 * Unit
    /\ SumSubtotal({r \in df_last_month_full : r.project_id = PROJECTS_TO_MONITOR[p].id})
          < 1 * Unit

\* The breakdown of a service of project p has rows to show
HasBreakdown(p, sid, sname) ==
    \E r \in {x \in df_this_month_full \cup df_last_month_full :
                 x.project_id = PROJECTS_TO_MONITOR[p].id /\ x.service_id = sid} :
        LET k == IF sname = N_ComputeEngine THEN categorize_sku(r.sku_description)
                 ELSE r.sku_description
            same(df) == {x \in df : /\ x.project_id = r.project_id
                                    /\ x.service_id = sid
                                    /\ k = (IF sname = N_ComputeEngine
                                            THEN categorize_sku(x.sku_description)
                                            ELSE x.sku_description)}
        IN  \/ SumSubtotal(same(df_last_month_full)) > 1 * Unit
            \/ SumSubtotal(same(df_this_month_full)) > 1 * Unit

C5_Isolation ==
    \A p \in 1..Len(PROJECTS_TO_MONITOR) :
        \* (1) a failed summary: no breakdown of the project is generated or sent
        /\ (\E i \in SummarySends(p) : slack_log[i].result = None) =>
              /\ ThreadSends(p) = {}
              /\ \A g \in 1..Len(generated) :
                    generated[g].project_id # PROJECTS_TO_MONITOR[p].id
        \* (2) and (3) at the finish every project has been processed, and in a
        \* project whose summary was sent every breakdown was attempted,
        \* whatever became of the others
        /\ finished =>
              /\ project_idx = Len(PROJECTS_TO_MONITOR) + 1
              /\ Skipped(p) \/ Cardinality(SummarySends(p)) = 1
              /\ (\E i \in SummarySends(p) : slack_log[i].result # None) =>
                    \A s \in ServicesOf(p) :
                        (ServiceCost(p, s[1], s[2]) > 1 * Unit
                         /\ HasBreakdown(p, s[1], s[2])) =>
                            \E i \in ThreadSends(p) :
                                slack_log[i].payload.text.service_name = s[2]

\* C5: a failed summary send skips the project's breakdowns and the loop goes
\* on with the next project; a failed breakdown send loses only that message;
\* no delivery failure ends the run: every project is processed and the
\* script reaches its finish.
C5_IsolateAndContinue == [](C5_Isolation) /\ <>finished

\* C5 witness: the script has finished after the summary of the first project
\* failed, and in the second project a breakdown send failed and a later one
\* was still made.
C5_Witness ==
    /\ finished
    /\ \E i \in SummarySends(1) : slack_log[i].result = None
    /\ \E i, j \in ThreadSends(2) :
          i < j /\ slack_log[i].result = None /\ slack_log[j].result # None

\* C6: per project, breakdowns are generated only for services with cost > 1,
\* the BigQuery service before every other service whatever the costs, the
\* others in descending cost; and once the services of a project are through,
\* every service with cost > 1 has had its breakdown generated.
C6_BreakdownOrder ==
    /\ \A i \in 1..Len(generated) :
          /\ generated[i].cost > 1 * Unit
          /\ \E p \in 1..Len(PROJECTS_TO_MONITOR) :
                /\ generated[i].project_id = PROJECTS_TO_MONITOR[p].id
                /\ generated[i].cost
                      = ServiceCost(p, generated[i].service_id, generated[i].service_name)
    /\ \A i, j \in 1..Len(generated) :
          (i < j /\ generated[i].project_id = generated[j].project_id) =>
              /\ generated[j].service_name = N_BigQuery
                    => generated[i].service_name = N_BigQuery
              /\ (generated[i].service_name # N_BigQuery
                  /\ generated[j].service_name # N_BigQuery)
                    => generated[i].cost >= generated[j].cost
    /\ \A p \in 1..Len(PROJECTS_TO_MONITOR) :
          (p < project_idx /\ \E i \in SummarySends(p) : slack_log[i].result # None) =>
              \A s \in ServicesOf(p) :
                  ServiceCost(p, s[1], s[2]) > 1 * Unit =>
                      \E i \in 1..Len(generated) :
                          /\ generated[i].project_id = PROJECTS_TO_MONITOR[p].id
                          /\ generated[i].service_id = s[1]
                          /\ generated[i].service_name = s[2]

\* C6 witness: the breakdown of BigQuery, of cost 3.00, was generated before
\* that of a non-priority service of cost 5.00.
C6_Witness ==
    \E i, j \in 1..Len(generated) :
        /\ i < j
        /\ generated[i].project_id = generated[j].project_id
        /\ generated[i].service_name = N_BigQuery
        /\ generated[i].cost = 300
        /\ generated[j].service_name # N_BigQuery
        /\ generated[j].cost = 500

\* C7: in a non-degenerate comparison (prior total, elapsed days and expected
\* pace all non-zero) format_diff reports an increase exactly when the current
\* total is above the expected pace prior/total_days*elapsed, a decrease
\* exactly when it is below, and the neutral annotation exactly when equal,
\* also for a negative prior total.
C7_PaceDirection ==
    (fd_out # <<>> /\ fd_in[1] # 0 /\ fd_in[3] # 0) =>
        /\ fd_out[1].kind = "up" <=> fd_in[2] * fd_in[4] > fd_in[1] * fd_in[3]
        /\ fd_out[1].kind = "down" <=> fd_in[2] * fd_in[4] < fd_in[1] * fd_in[3]
        /\ fd_out[1].kind = "flat" <=> fd_in[2] * fd_in[4] = fd_in[1] * fd_in[3]

\* The service has rows in the current period
Seen(s) == \E r \in df_this_project : r.service_description = s

CurrentCost(s) == SumSubtotal({r \in df_this_project : r.service_description = s})

NonIncreasing ==
    \A i, j \in 1..Len(DataRows(report.table)) :
        i < j => CurrentCost(report.table[i].label) >= CurrentCost(report.table[j].label)

\* C8 as stated: the summary rows are in non-increasing order of current cost
\* and every service without current-period rows comes after every service
\* with current-period rows.
C8_UnseenTrailAll ==
    report.call = "summary" =>
        /\ NonIncreasing
        /\ \A i, j \in 1..Len(DataRows(report.table)) :
              (Seen(report.table[i].label) /\ ~Seen(report.table[j].label)) => i < j

\* C8 amended: the summary rows are in non-increasing order of current cost,
\* a service without current-period rows counting as cost 0; so such a
\* service comes after every service of positive current cost (and before
\* every service of negative current cost).
C8_SortedByCurrentCost ==
    report.call = "summary" =>
        /\ NonIncreasing
        /\ \A i, j \in 1..Len(DataRows(report.table)) :
              ~Seen(report.table[j].label) =>
                  /\ CurrentCost(report.table[i].label) > 0 => i < j
                  /\ CurrentCost(report.table[i].label) < 0 => j < i

\* C8 witness: a summary that shows a service without current-period rows
\* below a service of positive current cost.
C8_Witness ==
    /\ report.call = "summary"
    /\ \E i, j \in 1..Len(DataRows(report.table)) :
          /\ i < j
          /\ CurrentCost(report.table[i].label) > 0
          /\ ~Seen(report.table[j].label)

\* The rules of categorize_sku in their order: the patterns of each rule and
\* the labels it gives
CategoryRules ==
    << [patterns |-> {<<"l","o","c","a","l"," ","s","s","d">>,
                      <<"l","o","c","a","l"," ","s","t","o","r","a","g","e">>},
        labels |-> {Local_OnDemand, Local_Committed}],
       [patterns |-> {<<" ","r","a","m"," ">>,
                      <<"i","n","s","t","a","n","c","e"," ","r","a","m">>,
                      <<"m","e","m","o","r","y">>},
        labels |-> {VM_RAM_OnDemand, VM_RAM_Committed, VM_RAM_Spot}],
       [patterns |-> {<<"i","n","s","t","a","n","c","e"," ","c","o","r","e">>,
                      <<"c","p","u">>},
        labels |-> {VM_Core_OnDemand, VM_Core_Committed, VM_Core_Spot}],
       [patterns |-> {<<"s","t","o","r","a","g","e"," ","p","d">>,
                      <<"p","e","r","s","i","s","t","e","n","t"," ","d","i","s","k">>},
        labels |-> {Persistent_Disk, PD_Snapshots}],
       [patterns |-> {<<"d","a","t","a"," ","t","r","a","n","s","f","e","r">>},
        labels |-> {Data_Transfer}],
       [patterns |-> {<<"i","p"," ","a","d","d","r","e","s","s">>},
        labels |-> {IP_Addresses}],
       [patterns |-> {<<"l","i","c","e","n","s","e">>,
                      <<"l","i","c","e","n","s","i","n","g"," ","f","e","e">>},
        labels |-> {Licenses}],
       [patterns |-> {<<"r","o","u","t","e","r">>},
        labels |-> {Cloud_Router}] >>

Matches(rule, d) == \E p \in rule.patterns : Contains(p, str_lower(d))

\* C9: categorize_sku returns a label of the first rule, in the fixed order,
\* one of whose patterns occurs in the lower-cased descriptor, and Other when
\* none does; the literal descriptor with a core and a local-SSD pattern gets
\* the storage label.
C9_FirstRuleWins ==
    category # <<>> =>
        /\ \A i \in 1..Len(CategoryRules) :
              (Matches(CategoryRules[i], sku_in)
               /\ \A j \in 1..(i - 1) : ~Matches(CategoryRules[j], sku_in))
                  => category \in CategoryRules[i].labels
        /\ (\A i \in 1..Len(CategoryRules) : ~Matches(CategoryRules[i], sku_in))
              => category = Other
        /\ sku_in = Sku_literal => category = Local_OnDemand

\* C9 witness: the literal descriptor, which matches the storage rule and the
\* core rule, has been categorized as storage.
C9_Witness ==
    /\ sku_in = Sku_literal
    /\ Matches(CategoryRules[1], sku_in)
    /\ Matches(CategoryRules[3], sku_in)
    /\ category = Local_OnDemand

Position(label) == CHOOSE i \in 1..Len(category_order) : category_order[i] = label

\* Every label categorize_sku gives to a descriptor has a place in category_order
AllLabelsRanked ==
    \A d \in Descriptors : \E i \in 1..Len(category_order) : category_order[i] = categorize_sku(d)

\* C10: the category rows of the Compute Engine breakdown stand in the order of
\* category_order whatever their amounts, and every label categorize_sku gives
\* has a place in category_order.
C10_CategoryOrder ==
    /\ AllLabelsRanked
    /\ (report.call = "breakdown" /\ report.service_name = N_ComputeEngine) =>
          \A i, j \in 1..Len(DataRows(report.table)) :
              i < j => /\ report.table[i].label \in Range(category_order)
                       /\ report.table[j].label \in Range(category_order)
                       /\ Position(report.table[i].label) < Position(report.table[j].label)

\* C10 witness: a Compute Engine breakdown showing VM RAM (On-Demand), Licenses
\* and Other in this order, the last with the larger current cost.
C10_Witness ==
    /\ report.call = "breakdown"
    /\ report.service_name = N_ComputeEngine
    /\ Len(DataRows(report.table)) = 3
    /\ report.table[1].label = VM_RAM_OnDemand
    /\ report.table[2].label = Licenses
    /\ report.table[3].label = Other
    /\ CellCents(report.table[3].curr.amount) > CellCents(report.table[1].curr.amount)

====
